---- MODULE Spec2Model ----
(***************************************************************************)
(* Model of mrpt_tutorials/launch/demo_localization_pf_mvsim_2d_lidar.     *)
(* launch.py: generate_launch_description(), statement by statement.       *)
(*                                                                         *)
(* A Python str is a sequence of atoms; an atom is either the path         *)
(* separator SEP or a separator-free piece of text.  The empty str '' is   *)
(* the empty sequence.  os.path.join is modelled by what posixpath.join    *)
(* does on such sequences, so that a joined path can differ from the       *)
(* expected one.                                                           *)
(***************************************************************************)
EXTENDS Naturals, Sequences, FiniteSets

VARIABLES
    share,                  \* ament index: package -> [found, dir]
    missing,                \* files named by the launch file that are absent on disk
    pc,                     \* position in generate_launch_description
    tutsDir,                \* local of line 17
    pf_localization_launch, \* local of line 21
    mrpt_map_launch,        \* local of line 31
    mvsim_node,             \* local of line 40
    rviz2_node,             \* local of line 52
    lookups,                \* package -> number of get_package_share_directory calls
    raised,                 \* the exception leaving the function, if any
    ret                     \* the value returned, if any

vars == <<share, missing, pc, tutsDir, pf_localization_launch, mrpt_map_launch,
          mvsim_node, rviz2_node, lookups, raised, ret>>

\* Number of install prefixes the ament index may resolve a package to.
NumPrefixes == 2

SEP == "/"

Packages == {"mrpt_tutorials", "mrpt_pf_localization", "mrpt_map"}

\* The files the launch file names, by role.
FileRoles == {"metricmap_dir", "map_yaml", "mvsim_params", "world_xml",
              "rviz_config", "localization_launch", "map_server_launch"}

\* posixpath.join(a, b)
Join(a, b) ==
    IF b # <<>> /\ b[1] = SEP THEN b
    ELSE IF a = <<>> \/ a[Len(a)] = SEP THEN a \o b
    ELSE a \o <<SEP>> \o b

\* os.path.join(a, b, c)
Join3(a, b, c) == Join(Join(a, b), c)

\* Install prefix number i: "/ws", "/ws/ws/", "/ws/ws/ws", ... (an even one
\* carries a trailing separator, as an AMENT_PREFIX_PATH entry may).
Prefix(i) ==
    [k \in 1..(2 * i) |-> IF k % 2 = 1 THEN SEP ELSE "ws"]
        \o (IF i % 2 = 0 THEN <<SEP>> ELSE <<>>)

\* The share directory the ament index gives for pkg installed under prefix.
ShareDir(prefix, pkg) == Join3(prefix, <<"share">>, <<pkg>>)

\* What get_package_share_directory can do for pkg: find it, or not.
ShareEntries(pkg) ==
    {[found |-> FALSE, dir |-> <<>>]}
        \cup {[found |-> TRUE, dir |-> ShareDir(Prefix(i), pkg)] : i \in 1..NumPrefixes}

Unset == [kind |-> "unset"]
NoException == [type |-> "none", package |-> ""]
NoReturn == [returned |-> FALSE, actions |-> <<>>]

Init ==
    /\ share \in [Packages -> UNION {ShareEntries(p) : p \in Packages}]
    /\ \A p \in Packages : share[p] \in ShareEntries(p)
    /\ missing \in SUBSET FileRoles
    /\ pc = "L17"
    /\ tutsDir = <<>>
    /\ pf_localization_launch = Unset
    /\ mrpt_map_launch = Unset
    /\ mvsim_node = Unset
    /\ rviz2_node = Unset
    /\ lookups = [p \in Packages |-> 0]
    /\ raised = NoException
    /\ ret = NoReturn

\* Variant: a package that is not found is replaced by a default directory.
GetPackageShareDirectoryOrDefault(pkg) ==
    IF share[pkg].found THEN share[pkg]
    ELSE [found |-> TRUE, dir |-> ShareDir(Prefix(1), pkg)]

\* get_package_share_directory(pkg): the entry of the ament index.
GetPackageShareDirectory(pkg) == share[pkg]

\* PackageNotFoundError for pkg, as it leaves generate_launch_description.
PackageNotFoundError(pkg) == [type |-> "PackageNotFoundError", package |-> pkg]

\* IncludeLaunchDescription(PythonLaunchDescriptionSource(source),
\*                          launch_arguments=arguments.items())
IncludeLaunchDescription(source, arguments) ==
    [kind |-> "IncludeLaunchDescription",
     source |-> source,
     launch_arguments |-> arguments,
     kwargs |-> {"launch_arguments"}]

\* [os.path.join(<share of mrpt_pf_localization>, 'launch', 'localization.launch.py')]
PfLocalizationSource(dir) ==
    <<Join3(dir, <<"launch">>, <<"localization.launch.py">>)>>

\* Variant: the directory itself, without the two empty components.
MetricMapFileNoJoin(d) == d

\* os.path.join(tutsDir, '', '')
MetricMapFile(d) == Join3(d, <<>>, <<>>)

\* The launch_arguments dict of pf_localization_launch, in insertion order.
PfLocalizationArguments(d) ==
    << <<"mrpt_metricmap_file", MetricMapFile(d)>>,
       <<"log_level", <<"INFO">>>> >>

\* Variant: the map-server launch file looked for under tutsDir.
MrptMapSourceUnderTutsDir(dir) ==
    <<Join3(tutsDir, <<"launch">>, <<"mrpt_map_server.launch.py">>)>>

\* [os.path.join(<share of mrpt_map>, 'launch', 'mrpt_map_server.launch.py')]
MrptMapSource(dir) ==
    <<Join3(dir, <<"launch">>, <<"mrpt_map_server.launch.py">>)>>

\* Variant: plain concatenation, tutsDir + 'maps/demo_world2.yaml'.
MapYamlFileConcat(d) == d \o <<"maps", SEP, "demo_world2.yaml">>

\* os.path.join(tutsDir, 'maps', 'demo_world2.yaml')
MapYamlFile(d) == Join3(d, <<"maps">>, <<"demo_world2.yaml">>)

\* Variant: a second launch argument is forwarded to the map server.
MrptMapArgumentsWithFrame(d) ==
    << <<"map_yaml_file", MapYamlFile(d)>>, <<"frame_id", <<"map">>>> >>

\* The launch_arguments dict of mrpt_map_launch.
MrptMapArguments(d) == << <<"map_yaml_file", MapYamlFile(d)>> >>

\* os.path.join(tutsDir, 'params', 'mvsim_ros2_params.yaml')
MvsimParamsFile(d) == Join3(d, <<"params">>, <<"mvsim_ros2_params.yaml">>)

\* os.path.join(tutsDir, 'mvsim', 'demo_world2.world.xml')
WorldFile(d) == Join3(d, <<"mvsim">>, <<"demo_world2.world.xml">>)

\* Variant: the parameter file is listed only if it exists on disk.
MvsimParametersIfExists(d) ==
    IF "mvsim_params" \in missing
    THEN << [type |-> "dict", items |-> << <<"world_file", WorldFile(d)>> >>] >>
    ELSE << [type |-> "file", path |-> MvsimParamsFile(d)],
            [type |-> "dict", items |-> << <<"world_file", WorldFile(d)>> >>] >>

\* Variant: the inline dict is listed before the parameter file.
MvsimParametersDictFirst(d) ==
    << [type |-> "dict", items |-> << <<"world_file", WorldFile(d)>> >>],
       [type |-> "file", path |-> MvsimParamsFile(d)] >>

\* The parameters list of mvsim_node: a parameter-file path, then a dict.
MvsimParameters(d) ==
    << [type |-> "file", path |-> MvsimParamsFile(d)],
       [type |-> "dict", items |-> << <<"world_file", WorldFile(d)>> >>] >>

\* Variant: the simulator node is respawned when it exits.
MvsimNodeRespawn(d) ==
    [kind |-> "Node",
     package |-> "mvsim",
     executable |-> "mvsim_node",
     name |-> "mvsim",
     output |-> "screen",
     parameters |-> MvsimParameters(d),
     arguments |-> <<>>,
     kwargs |-> {"package", "executable", "name", "output", "parameters",
                 "respawn"}]

\* Node(package='mvsim', executable='mvsim_node', name='mvsim',
\*      output='screen', parameters=[...])
MvsimNode(d) ==
    [kind |-> "Node",
     package |-> "mvsim",
     executable |-> "mvsim_node",
     name |-> "mvsim",
     output |-> "screen",
     parameters |-> MvsimParameters(d),
     arguments |-> <<>>,
     kwargs |-> {"package", "executable", "name", "output", "parameters"}]

\* os.path.join(tutsDir, 'rviz2', 'gridmap.rviz')
RvizConfigFile(d) == Join3(d, <<"rviz2">>, <<"gridmap.rviz">>)

\* The arguments list of rviz2_node: '-d', then a one-element list.
Rviz2Arguments(d) ==
    << [type |-> "text", parts |-> << <<"-d">> >>],
       [type |-> "list", parts |-> <<RvizConfigFile(d)>>] >>

\* Node(package='rviz2', executable='rviz2', name='rviz2', arguments=[...])
Rviz2Node(d) ==
    [kind |-> "Node",
     package |-> "rviz2",
     executable |-> "rviz2",
     name |-> "rviz2",
     output |-> "",
     parameters |-> <<>>,
     arguments |-> Rviz2Arguments(d),
     kwargs |-> {"package", "executable", "name", "arguments"}]

\* Variant: the localization include is listed twice, the map server not at all.
LaunchDescriptionNoMap(pf, mvsim, rviz, map) == <<pf, mvsim, rviz, pf>>

\* Variant: the map server is listed first.
LaunchDescriptionMapFirst(pf, mvsim, rviz, map) == <<map, pf, mvsim, rviz>>

\* LaunchDescription([pf_localization_launch, mvsim_node, rviz2_node, mrpt_map_launch])
LaunchDescription(pf, mvsim, rviz, map) == <<pf, mvsim, rviz, map>>

----------------------------------------------------------------------------

\* Line 17: tutsDir = get_package_share_directory("mrpt_tutorials")
ResolveTutsDir ==
    /\ pc = "L17"
    /\ lookups' = [lookups EXCEPT !["mrpt_tutorials"] = @ + 1]
    /\ LET r == GetPackageShareDirectory("mrpt_tutorials") IN
        IF r.found
        THEN /\ tutsDir' = r.dir
             /\ pc' = "L21"
             /\ raised' = raised
        ELSE /\ tutsDir' = tutsDir
             /\ pc' = "raised"
             /\ raised' = PackageNotFoundError("mrpt_tutorials")
    /\ UNCHANGED <<share, missing, pf_localization_launch, mrpt_map_launch,
                   mvsim_node, rviz2_node, ret>>

\* Lines 21-29: pf_localization_launch = IncludeLaunchDescription(...)
BuildPfLocalizationLaunch ==
    /\ pc = "L21"
    /\ lookups' = [lookups EXCEPT !["mrpt_pf_localization"] = @ + 1]
    /\ LET r == GetPackageShareDirectory("mrpt_pf_localization") IN
        IF r.found
        THEN /\ pf_localization_launch' =
                    IncludeLaunchDescription(PfLocalizationSource(r.dir),
                                             PfLocalizationArguments(tutsDir))
             /\ pc' = "L31"
             /\ raised' = raised
        ELSE /\ pf_localization_launch' = pf_localization_launch
             /\ pc' = "raised"
             /\ raised' = PackageNotFoundError("mrpt_pf_localization")
    /\ UNCHANGED <<share, missing, tutsDir, mrpt_map_launch, mvsim_node,
                   rviz2_node, ret>>

\* Lines 31-38: mrpt_map_launch = IncludeLaunchDescription(...)
BuildMrptMapLaunch ==
    /\ pc = "L31"
    /\ lookups' = [lookups EXCEPT !["mrpt_map"] = @ + 1]
    /\ LET r == GetPackageShareDirectory("mrpt_map") IN
        IF r.found
        THEN /\ mrpt_map_launch' =
                    IncludeLaunchDescription(MrptMapSource(r.dir),
                                             MrptMapArguments(tutsDir))
             /\ pc' = "L40"
             /\ raised' = raised
        ELSE /\ mrpt_map_launch' = mrpt_map_launch
             /\ pc' = "raised"
             /\ raised' = PackageNotFoundError("mrpt_map")
    /\ UNCHANGED <<share, missing, tutsDir, pf_localization_launch, mvsim_node,
                   rviz2_node, ret>>

\* Lines 40-50: mvsim_node = Node(...)
BuildMvsimNode ==
    /\ pc = "L40"
    /\ mvsim_node' = MvsimNode(tutsDir)
    /\ pc' = "L52"
    /\ UNCHANGED <<share, missing, tutsDir, pf_localization_launch,
                   mrpt_map_launch, rviz2_node, lookups, raised, ret>>

\* Lines 52-58: rviz2_node = Node(...)
BuildRviz2Node ==
    /\ pc = "L52"
    /\ rviz2_node' = Rviz2Node(tutsDir)
    /\ pc' = "L60"
    /\ UNCHANGED <<share, missing, tutsDir, pf_localization_launch,
                   mrpt_map_launch, mvsim_node, lookups, raised, ret>>

\* Lines 60-65: return LaunchDescription([...])
Return ==
    /\ pc = "L60"
    /\ ret' = [returned |-> TRUE,
               actions |-> LaunchDescription(pf_localization_launch, mvsim_node,
                                             rviz2_node, mrpt_map_launch)]
    /\ pc' = "done"
    /\ UNCHANGED <<share, missing, tutsDir, pf_localization_launch,
                   mrpt_map_launch, mvsim_node, rviz2_node, lookups, raised>>

Next ==
    \/ ResolveTutsDir
    \/ BuildPfLocalizationLaunch
    \/ BuildMrptMapLaunch
    \/ BuildMvsimNode
    \/ BuildRviz2Node
    \/ Return

Spec == Init /\ [][Next]_vars

----------------------------------------------------------------------------
(* Vocabulary of the properties.  Expected paths are written out atom by   *)
(* atom from the directory the ament index holds, not through Join.        *)

TutsShare == share["mrpt_tutorials"].dir
PfShare == share["mrpt_pf_localization"].dir
MapShare == share["mrpt_map"].dir

AllFound == \A p \in Packages : share[p].found
Finished == ~ENABLED Next
Acts == ret.actions

IsPrefixOf(d, path) == Len(d) <= Len(path) /\ SubSeq(path, 1, Len(d)) = d

LocalizationLaunchPath == PfShare \o <<SEP, "launch", SEP, "localization.launch.py">>
MapServerLaunchPath == MapShare \o <<SEP, "launch", SEP, "mrpt_map_server.launch.py">>
ExpectedMetricMapDir == TutsShare \o <<SEP>>
ExpectedMapYaml == TutsShare \o <<SEP, "maps", SEP, "demo_world2.yaml">>
ExpectedMvsimParams == TutsShare \o <<SEP, "params", SEP, "mvsim_ros2_params.yaml">>
ExpectedWorld == TutsShare \o <<SEP, "mvsim", SEP, "demo_world2.world.xml">>
ExpectedRvizConfig == TutsShare \o <<SEP, "rviz2", SEP, "gridmap.rviz">>

IsLocalizationInclude(a) ==
    a.kind = "IncludeLaunchDescription" /\ a.source = <<LocalizationLaunchPath>>
IsMapServerInclude(a) ==
    a.kind = "IncludeLaunchDescription" /\ a.source = <<MapServerLaunchPath>>
IsSimulatorNode(a) ==
    a.kind = "Node" /\ a.package = "mvsim" /\ a.executable = "mvsim_node"
IsVisualizerNode(a) ==
    a.kind = "Node" /\ a.package = "rviz2" /\ a.executable = "rviz2"

ArgNames(args) == {args[k][1] : k \in DOMAIN args}
ArgValues(args, name) == {args[k][2] : k \in {j \in DOMAIN args : args[j][1] = name}}
ParamFiles(params) ==
    {params[k].path : k \in {j \in DOMAIN params : params[j].type = "file"}}
ParamDictKeys(params) ==
    UNION {ArgNames(params[k].items) : k \in {j \in DOMAIN params : params[j].type = "dict"}}
ParamDictValues(params, name) ==
    UNION {ArgValues(params[k].items, name) :
              k \in {j \in DOMAIN params : params[j].type = "dict"}}
FollowsDashD(arguments, path) ==
    \E k \in 1..(Len(arguments) - 1) :
        /\ arguments[k].type = "text"
        /\ arguments[k].parts = << <<"-d">> >>
        /\ arguments[k + 1].parts = <<path>>

CountOf(P(_)) == Cardinality({i \in DOMAIN Acts : P(Acts[i])})

\* C1: whenever all three share lookups succeed, the function ends by
\* returning a description of exactly four top-level actions: exactly one
\* localization include, one map-server include, one mvsim/mvsim_node node and
\* one rviz2/rviz2 node, so none is duplicated and none is missing.
C1_FourActions ==
    (AllFound /\ Finished) =>
        /\ pc = "done"
        /\ ret.returned
        /\ Len(Acts) = 4
        /\ CountOf(IsLocalizationInclude) = 1
        /\ CountOf(IsMapServerInclude) = 1
        /\ CountOf(IsSimulatorNode) = 1
        /\ CountOf(IsVisualizerNode) = 1

C1_Witness ==
    /\ pc = "done"
    /\ AllFound
    /\ ret.returned
    /\ Len(Acts) = 4
    /\ PfShare = <<SEP, "ws", SEP, "share", SEP, "mrpt_pf_localization">>

\* C2: in the returned description the map-server include carries
\* map_yaml_file = <tutsDir>/maps/demo_world2.yaml, the simulator node carries
\* world_file = <tutsDir>/mvsim/demo_world2.world.xml, and on the visualizer
\* node <tutsDir>/rviz2/gridmap.rviz follows '-d'; tutsDir is the share
\* directory of mrpt_tutorials and each path adds exactly two components.
C2_DataPaths ==
    pc = "done" =>
        /\ \E i \in DOMAIN Acts :
              /\ IsMapServerInclude(Acts[i])
              /\ ArgValues(Acts[i].launch_arguments, "map_yaml_file") = {ExpectedMapYaml}
              /\ Len(ExpectedMapYaml) = Len(TutsShare) + 4
        /\ \E i \in DOMAIN Acts :
              /\ IsSimulatorNode(Acts[i])
              /\ ParamDictValues(Acts[i].parameters, "world_file") = {ExpectedWorld}
        /\ \E i \in DOMAIN Acts :
              /\ IsVisualizerNode(Acts[i])
              /\ FollowsDashD(Acts[i].arguments, ExpectedRvizConfig)

C2_Witness ==
    /\ pc = "done"
    /\ TutsShare = <<SEP, "ws", SEP, "ws", SEP, "share", SEP, "mrpt_tutorials">>
    /\ \E i \in DOMAIN Acts :
          /\ IsMapServerInclude(Acts[i])
          /\ ArgValues(Acts[i].launch_arguments, "map_yaml_file") =
                {<<SEP, "ws", SEP, "ws", SEP, "share", SEP, "mrpt_tutorials",
                   SEP, "maps", SEP, "demo_world2.yaml">>}

\* C3: the localization include receives exactly two launch arguments:
\* log_level = 'INFO' whatever the directories, and mrpt_metricmap_file = the
\* mrpt_tutorials share directory followed by one path separator (a
\* directory, with nothing after the separator).
C3_LocalizationArguments ==
    pc = "done" =>
        \E i \in DOMAIN Acts :
            /\ IsLocalizationInclude(Acts[i])
            /\ Len(Acts[i].launch_arguments) = 2
            /\ ArgNames(Acts[i].launch_arguments) = {"log_level", "mrpt_metricmap_file"}
            /\ ArgValues(Acts[i].launch_arguments, "log_level") = {<<"INFO">>}
            /\ ArgValues(Acts[i].launch_arguments, "mrpt_metricmap_file")
                  = {ExpectedMetricMapDir}
            /\ \A v \in ArgValues(Acts[i].launch_arguments, "mrpt_metricmap_file") :
                  v[Len(v)] = SEP /\ v[Len(v) - 1] = "mrpt_tutorials"

C3_Witness ==
    /\ pc = "done"
    /\ \E i \in DOMAIN Acts :
          /\ IsLocalizationInclude(Acts[i])
          /\ ArgValues(Acts[i].launch_arguments, "mrpt_metricmap_file") =
                {<<SEP, "ws", SEP, "share", SEP, "mrpt_tutorials", SEP>>}

\* Constructor keywords that forward values to the launched subsystem.
ForwardingKeywords ==
    {"launch_arguments", "parameters", "arguments", "ros_arguments",
     "remappings", "env", "additional_env"}

\* C4: the names forwarded downstream are fixed whatever the directories:
\* {mrpt_metricmap_file, log_level} to the localization include,
\* {map_yaml_file} to the map-server include, one parameter file plus
\* {world_file} to the simulator node, and the pair ('-d', config path) to the
\* visualizer node; each action forwards through that one keyword only.
C4_ForwardedNames ==
    pc = "done" =>
        \A i \in DOMAIN Acts :
            /\ IsLocalizationInclude(Acts[i]) =>
                  /\ ArgNames(Acts[i].launch_arguments)
                        = {"mrpt_metricmap_file", "log_level"}
                  /\ Len(Acts[i].launch_arguments) = 2
                  /\ Acts[i].kwargs \cap ForwardingKeywords = {"launch_arguments"}
            /\ IsMapServerInclude(Acts[i]) =>
                  /\ ArgNames(Acts[i].launch_arguments) = {"map_yaml_file"}
                  /\ Len(Acts[i].launch_arguments) = 1
                  /\ Acts[i].kwargs \cap ForwardingKeywords = {"launch_arguments"}
            /\ IsSimulatorNode(Acts[i]) =>
                  /\ ParamDictKeys(Acts[i].parameters) = {"world_file"}
                  /\ Cardinality(ParamFiles(Acts[i].parameters)) = 1
                  /\ Len(Acts[i].parameters) = 2
                  /\ Acts[i].arguments = <<>>
                  /\ Acts[i].kwargs \cap ForwardingKeywords = {"parameters"}
            /\ IsVisualizerNode(Acts[i]) =>
                  /\ Len(Acts[i].arguments) = 2
                  /\ Acts[i].arguments[1].parts = << <<"-d">> >>
                  /\ Len(Acts[i].arguments[2].parts) = 1
                  /\ Acts[i].parameters = <<>>
                  /\ Acts[i].kwargs \cap ForwardingKeywords = {"arguments"}

C4_Witness ==
    /\ pc = "done"
    /\ TutsShare # <<SEP, "ws", SEP, "share", SEP, "mrpt_tutorials">>
    /\ \E i \in DOMAIN Acts : IsMapServerInclude(Acts[i])
    /\ \E i \in DOMAIN Acts : IsLocalizationInclude(Acts[i])
    /\ \E i \in DOMAIN Acts : IsSimulatorNode(Acts[i])
    /\ \E i \in DOMAIN Acts : IsVisualizerNode(Acts[i])

\* The packages in the order the function looks them up.
LookupOrder == <<"mrpt_tutorials", "mrpt_pf_localization", "mrpt_map">>
FirstNotFound(k) ==
    /\ ~share[LookupOrder[k]].found
    /\ \A j \in 1..(k - 1) : share[LookupOrder[j]].found

\* C5: if the share lookup of any of the three packages fails, the function
\* ends in that package's PackageNotFoundError: nothing is returned (not even
\* a shorter description), the failed lookup was made once (no retry), no
\* directory stands in for the missing one, and no statement runs afterwards.
C5_LookupFailurePropagates ==
    /\ (~AllFound) => (pc # "done" /\ ret = NoReturn)
    /\ (~AllFound /\ Finished) =>
          /\ pc = "raised"
          /\ raised.type = "PackageNotFoundError"
          /\ \E k \in 1..3 :
                /\ FirstNotFound(k)
                /\ raised.package = LookupOrder[k]
                /\ lookups[LookupOrder[k]] = 1
                /\ \A j \in (k + 1)..3 : lookups[LookupOrder[j]] = 0
    /\ pc = "raised" => (Finished /\ ~AllFound /\ ~share[raised.package].found)

C5_Witness ==
    /\ pc = "raised"
    /\ raised = [type |-> "PackageNotFoundError", package |-> "mrpt_map"]
    /\ share["mrpt_tutorials"].found
    /\ share["mrpt_pf_localization"].found
    /\ ret = NoReturn
    /\ pf_localization_launch # Unset

\* Where the returned description names the file of a role.
Carries(role) ==
    \E i \in DOMAIN Acts :
        CASE role = "localization_launch" -> IsLocalizationInclude(Acts[i])
          [] role = "map_server_launch" -> IsMapServerInclude(Acts[i])
          [] role = "metricmap_dir" ->
                /\ IsLocalizationInclude(Acts[i])
                /\ ExpectedMetricMapDir
                      \in ArgValues(Acts[i].launch_arguments, "mrpt_metricmap_file")
          [] role = "map_yaml" ->
                /\ IsMapServerInclude(Acts[i])
                /\ ExpectedMapYaml \in ArgValues(Acts[i].launch_arguments, "map_yaml_file")
          [] role = "mvsim_params" ->
                /\ IsSimulatorNode(Acts[i])
                /\ ExpectedMvsimParams \in ParamFiles(Acts[i].parameters)
          [] role = "world_xml" ->
                /\ IsSimulatorNode(Acts[i])
                /\ ExpectedWorld \in ParamDictValues(Acts[i].parameters, "world_file")
          [] role = "rviz_config" ->
                /\ IsVisualizerNode(Acts[i])
                /\ FollowsDashD(Acts[i].arguments, ExpectedRvizConfig)

\* C6: no file named by the launch file is checked for existence: whenever
\* the three lookups succeed the function returns, without an exception, the
\* four-action description naming every one of the seven files, whichever of
\* them are absent on disk.
C6_NoExistenceCheck ==
    (AllFound /\ Finished) =>
        /\ pc = "done"
        /\ raised = NoException
        /\ ret.returned
        /\ Len(Acts) = 4
        /\ \A role \in FileRoles : Carries(role)

C6_Witness ==
    /\ pc = "done"
    /\ missing = FileRoles
    /\ ret.returned
    /\ Len(Acts) = 4
    /\ \A role \in FileRoles : Carries(role)

\* Constructor keywords and wrapping actions by which a launch file itself
\* constrains when an action starts, stops or restarts.
LifecycleKeywords ==
    {"condition", "respawn", "respawn_delay", "respawn_max_retries", "on_exit",
     "sigterm_timeout", "sigkill_timeout"}
PlainActionKinds == {"IncludeLaunchDescription", "Node"}

\* C7: every entry of the returned description is one of the four includes
\* and nodes themselves, placed at top level (not wrapped in a timer, group
\* or event-handler action) and built without any condition, respawn, on-exit
\* or timeout keyword.
C7_NoLifecycleRule ==
    pc = "done" =>
        /\ Len(Acts) = 4
        /\ \A i \in DOMAIN Acts :
              /\ Acts[i].kind \in PlainActionKinds
              /\ Acts[i].kwargs \cap LifecycleKeywords = {}
              /\ \/ IsLocalizationInclude(Acts[i])
                 \/ IsMapServerInclude(Acts[i])
                 \/ IsSimulatorNode(Acts[i])
                 \/ IsVisualizerNode(Acts[i])

C7_Witness ==
    /\ pc = "done"
    /\ \E i \in DOMAIN Acts :
          /\ IsSimulatorNode(Acts[i])
          /\ Acts[i].kwargs = {"package", "executable", "name", "output", "parameters"}
    /\ \E i \in DOMAIN Acts :
          /\ IsVisualizerNode(Acts[i])
          /\ Acts[i].kwargs = {"package", "executable", "name", "arguments"}

\* What the parameter file may hold for world_file: nothing, or another world.
ParamFileContents ==
    { <<>>, << <<"world_file", <<"other.world.xml">>>> >> }

EntryItems(entry, fileContent) ==
    IF entry.type = "file" THEN fileContent ELSE entry.items

\* The value a parameter list gives to key when a later entry overrides an
\* earlier one (the rule by which the launch framework applies the list).
LastWins(params, key, fileContent) ==
    LET defining == {k \in DOMAIN params :
                        key \in ArgNames(EntryItems(params[k], fileContent))}
    IN IF defining = {} THEN {}
       ELSE LET last == CHOOSE k \in defining : \A j \in defining : j <= k
            IN ArgValues(EntryItems(params[last], fileContent), key)

\* C8: the simulator node's parameter list has exactly two entries: first the
\* parameter file <tutsDir>/params/mvsim_ros2_params.yaml, second an inline
\* dict whose only key is world_file; hence, applying the list in order with
\* later entries overriding earlier ones, world_file resolves to the inline
\* value whether or not the parameter file defines world_file too.
C8_SimulatorParameterOrder ==
    pc = "done" =>
        \E i \in DOMAIN Acts :
            /\ IsSimulatorNode(Acts[i])
            /\ LET params == Acts[i].parameters IN
                /\ Len(params) = 2
                /\ params[1].type = "file"
                /\ params[1].path = ExpectedMvsimParams
                /\ params[2].type = "dict"
                /\ ArgNames(params[2].items) = {"world_file"}
                /\ Len(params[2].items) = 1
                /\ \A fc \in ParamFileContents :
                      LastWins(params, "world_file", fc) = {ExpectedWorld}

C8_Witness ==
    /\ pc = "done"
    /\ \E i \in DOMAIN Acts :
          /\ IsSimulatorNode(Acts[i])
          /\ Len(Acts[i].parameters) = 2
          /\ Acts[i].parameters[1].path =
                <<SEP, "ws", SEP, "share", SEP, "mrpt_tutorials",
                  SEP, "params", SEP, "mvsim_ros2_params.yaml">>
          /\ LastWins(Acts[i].parameters, "world_file",
                      << <<"world_file", <<"other.world.xml">>>> >>)
                = {<<SEP, "ws", SEP, "share", SEP, "mrpt_tutorials",
                     SEP, "mvsim", SEP, "demo_world2.world.xml">>}

\* C9: the returned list is, for every input, in the order localization
\* include, simulator node, visualizer node, map-server include.
C9_ActionOrder ==
    pc = "done" =>
        /\ Len(Acts) = 4
        /\ IsLocalizationInclude(Acts[1])
        /\ IsSimulatorNode(Acts[2])
        /\ IsVisualizerNode(Acts[3])
        /\ IsMapServerInclude(Acts[4])

C9_Witness ==
    /\ pc = "done"
    /\ IsMapServerInclude(Acts[4])
    /\ IsLocalizationInclude(Acts[1])
    /\ MapShare # <<SEP, "ws", SEP, "share", SEP, "mrpt_map">>

\* Every path the description forwards as a parameter value.
DataPathsOf(a) ==
    IF a.kind = "IncludeLaunchDescription"
    THEN {a.launch_arguments[k][2] :
             k \in {j \in DOMAIN a.launch_arguments :
                       a.launch_arguments[j][1] # "log_level"}}
    ELSE IF a.kind = "Node"
    THEN ParamFiles(a.parameters)
            \cup UNION {ArgValues(a.parameters[k].items, "world_file") :
                           k \in {j \in DOMAIN a.parameters :
                                     a.parameters[j].type = "dict"}}
            \cup UNION {{a.arguments[k].parts[m] : m \in DOMAIN a.arguments[k].parts} :
                           k \in {j \in DOMAIN a.arguments :
                                     a.arguments[j].type = "list"}}
    ELSE {}
DataPaths == UNION {DataPathsOf(Acts[i]) : i \in DOMAIN Acts}

\* C10: each included launch file lies under its own package's share
\* directory (<share(mrpt_pf_localization)>/launch/localization.launch.py,
\* <share(mrpt_map)>/launch/mrpt_map_server.launch.py) and not under tutsDir,
\* while the five data paths all start with the mrpt_tutorials share
\* directory, which is looked up exactly once.
C10_PathRoots ==
    pc = "done" =>
        /\ \E i \in DOMAIN Acts :
              /\ Acts[i].kind = "IncludeLaunchDescription"
              /\ Acts[i].source = <<LocalizationLaunchPath>>
              /\ "mrpt_metricmap_file" \in ArgNames(Acts[i].launch_arguments)
              /\ ~IsPrefixOf(TutsShare, Acts[i].source[1])
        /\ \E i \in DOMAIN Acts :
              /\ Acts[i].kind = "IncludeLaunchDescription"
              /\ Acts[i].source = <<MapServerLaunchPath>>
              /\ "map_yaml_file" \in ArgNames(Acts[i].launch_arguments)
              /\ ~IsPrefixOf(TutsShare, Acts[i].source[1])
        /\ DataPaths = {ExpectedMetricMapDir, ExpectedMapYaml, ExpectedMvsimParams,
                        ExpectedWorld, ExpectedRvizConfig}
        /\ \A path \in DataPaths : IsPrefixOf(TutsShare, path)
        /\ tutsDir = TutsShare
        /\ lookups = [p \in Packages |-> 1]

C10_Witness ==
    /\ pc = "done"
    /\ TutsShare = <<SEP, "ws", SEP, "share", SEP, "mrpt_tutorials">>
    /\ MapShare = <<SEP, "ws", SEP, "ws", SEP, "share", SEP, "mrpt_map">>
    /\ Acts[4].source =
          << <<SEP, "ws", SEP, "ws", SEP, "share", SEP, "mrpt_map",
               SEP, "launch", SEP, "mrpt_map_server.launch.py">> >>
    /\ Cardinality(DataPaths) = 5
    /\ lookups["mrpt_tutorials"] = 1

====
